---- MODULE Spec2Model ----
(***************************************************************************)
(* Model of the tus.io resumable-upload server of go-resumable-upload.     *)
(* The state is the closure state of buildServeMux (the storage map and    *)
(* its File records), the upload directory on disk, and one record per     *)
(* request-handling goroutine.  Go strings that the code parses or formats *)
(* (header values) are sequences of byte values.                           *)
(***************************************************************************)
EXTENDS Integers, Sequences, FiniteSets, TLC

\* ------------------------------------------------------------------ bounds
\* longest request body, in bytes
MaxBody == 3
\* most bytes the clients ever send to one upload, over all its requests,
\* when requests are handled concurrently
MaxStore == 2
\* the same, for a client that sends one request at a time
MaxStoreSeq == 4
\* the same, for a client that creates uploads of many kinds or two uploads,
\* one request at a time
MaxStoreReg == 1
\* the same, while the server is shut down
MaxStoreDown == 1
MaxStoreTwo == 1
MaxStoreLive == 1

\* ------------------------------------------------------- program constants
\* MAX_SIZE (1 GiB in the source), scaled down
MAX_SIZE == 4
\* CHUNK_SIZE (1 MiB in the source), scaled down
CHUNK_SIZE == 2
\* unicode.MaxASCII
MaxASCII == 127
\* "1.0.0"
TUS_PROTOCOL_VERSION == <<49, 46, 48, 46, 48>>
\* "creation"
SUPPORTED_EXTENSION == <<99, 114, 101, 97, 116, 105, 111, 110>>
CONTENT_TYPE_OFFSET_OCTET_STREAM == "application/offset+octet-stream"

\* net/http status codes used by the handlers
StatusOK == 200
StatusCreated == 201
StatusNoContent == 204
StatusBadRequest == 400
StatusNotFound == 404
StatusConflict == 409
StatusLengthRequired == 411
StatusRequestEntityTooLarge == 413
StatusUnsupportedMediaType == 415
StatusInternalServerError == 500

\* ------------------------------------------------------------------ domains
\* the goroutines net/http runs the handlers on
Procs == {"h1", "h2"}
\* the values uuid.NewUUID can return, as id.String()
UUIDs == {<<117, 49>>, <<117, 50>>}
\* a path value that is not a UUID (as the tests' "dummy-not-found")
UnknownId == <<100>>
PathIds == UUIDs \cup {UnknownId}
\* byte values of request bodies
Bytes == {1, 2}

\* the nil *File, an absent header, a file that does not exist
Nil == [ID |-> <<>>]
NoHeader == <<-1>>
NoFile == <<-1>>

\* ------------------------------------------------------------ Go strings
\* a Go string is a sequence of bytes; "" is <<>>
RECURSIVE NatDigits(_)
NatDigits(n) == IF n < 10 THEN <<48 + n>> ELSE NatDigits(n \div 10) \o <<48 + (n % 10)>>

\* strconv.Itoa
Itoa(n) == IF n < 0 THEN <<45>> \o NatDigits(0 - n) ELSE NatDigits(n)

IsDigit(c) == c >= 48 /\ c <= 57

RECURSIVE DigitsVal(_)
DigitsVal(s) == IF s = <<>> THEN 0 ELSE 10 * DigitsVal(SubSeq(s, 1, Len(s) - 1)) + (s[Len(s)] - 48)

\* the largest int (math.MaxInt, 2^63 - 1 in the source's build), scaled down
MaxInt == 99

\* strconv.Atoi: an optional sign and at least one decimal digit; on a syntax
\* error the value is 0 and err is set, on a value out of the range of int the
\* value is the nearest int and err is set
Atoi(s) ==
  LET signed == s # <<>> /\ s[1] \in {43, 45}
      d == IF signed THEN Tail(s) ELSE s
      ok == d # <<>> /\ \A i \in 1..Len(d) : IsDigit(d[i])
      v == IF signed /\ s[1] = 45 THEN 0 - DigitsVal(d) ELSE DigitsVal(d)
  IN IF ~ok THEN [val |-> 0, err |-> TRUE]
     ELSE IF v > MaxInt THEN [val |-> MaxInt, err |-> TRUE]
     ELSE IF v < 0 - MaxInt - 1 THEN [val |-> 0 - MaxInt - 1, err |-> TRUE]
     ELSE [val |-> v, err |-> FALSE]

\* index of the first occurrence of byte c in s, 0 if none
IndexByte(s, c) ==
  LET at == {i \in 1..Len(s) : s[i] = c}
  IN IF at = {} THEN 0 ELSE CHOOSE i \in at : \A j \in at : i <= j

\* strings.Split(s, ",") for a one-byte separator
RECURSIVE Split(_, _)
Split(s, c) ==
  LET i == IndexByte(s, c)
  IN IF i = 0 THEN <<s>> ELSE <<SubSeq(s, 1, i - 1)>> \o Split(SubSeq(s, i + 1, Len(s)), c)

\* the one-byte white space of unicode.IsSpace: \t \n \v \f \r and ' '
IsSpace(c) == c \in {9, 10, 11, 12, 13, 32}

RECURSIVE TrimLeft(_)
TrimLeft(s) == IF s # <<>> /\ IsSpace(s[1]) THEN TrimLeft(Tail(s)) ELSE s

RECURSIVE TrimRight(_)
TrimRight(s) == IF s # <<>> /\ IsSpace(s[Len(s)]) THEN TrimRight(SubSeq(s, 1, Len(s) - 1)) ELSE s

\* strings.TrimSpace
TrimSpace(s) == TrimRight(TrimLeft(s))

\* the alphabet of base64.StdEncoding
IsBase64Char(c) ==
  \/ c >= 65 /\ c <= 90
  \/ c >= 97 /\ c <= 122
  \/ IsDigit(c)
  \/ c \in {43, 47}

RECURSIVE DropNewlines(_)
DropNewlines(s) ==
  IF s = <<>> THEN <<>>
  ELSE IF s[1] \in {10, 13} THEN DropNewlines(Tail(s))
  ELSE <<s[1]>> \o DropNewlines(Tail(s))

\* base64.StdEncoding.DecodeString(v) returns no error: \r and \n are skipped,
\* the rest is whole 4-byte quanta of alphabet bytes, and '=' padding may only
\* fill the last one or two places of the last quantum
Base64Valid(v) ==
  LET s == DropNewlines(v)
      n == Len(s)
  IN /\ n % 4 = 0
     /\ \A i \in 1..n :
          \/ IsBase64Char(s[i])
          \/ /\ s[i] = 61
             /\ i >= n - 1
             /\ (i = n - 1 => s[n] = 61)

\* the byte indices (from 0) that `for s := range k` yields: one per rune, the
\* index of its first byte (continuation bytes 0x80..0xBF start no rune)
RuneIndices(k) == {i - 1 : i \in {j \in 1..Len(k) : ~(k[j] >= 128 /\ k[j] <= 191)}}

\* the loop body of validateMetadata returns an error for this pair
PairInvalid(rawPair) ==
  LET pair == TrimSpace(rawPair)
      sp == IndexByte(pair, 32)
      k == IF sp # 0 THEN TrimSpace(SubSeq(pair, 1, sp - 1)) ELSE pair
      v == IF sp # 0 THEN TrimSpace(SubSeq(pair, sp + 1, Len(pair))) ELSE <<>>
  IN \/ v # <<>> /\ ~Base64Valid(v)
     \/ \E s \in RuneIndices(k) : s > MaxASCII

\* a validateMetadata that looks at the first pair only
validateMetadata_FirstPair(metadata) == PairInvalid(Split(metadata, 44)[1])

\* validateMetadata(metadata) returns an error
validateMetadata(metadata) ==
  LET pairs == Split(metadata, 44)
  IN \E i \in 1..Len(pairs) : PairInvalid(pairs[i])

\* ------------------------------------------------------------------ inputs
\* request bodies
Bodies == UNION {[1..n -> Bytes] : n \in 0..MaxBody}
\* Upload-Length values: "2", "5" (over MAX_SIZE) and "x"
UploadLengths == {<<50>>, <<53>>, <<120>>}
\* Upload-Metadata values: absent, "k dg==" and "k !" (not base64)
UploadMetadatas == {<<>>, <<107, 32, 100, 103, 61, 61>>, <<107, 32, 33>>}
\* Upload-Offset values: absent, "x" and the decimal offsets
UploadOffsets(quota) == {<<>>, <<120>>} \cup {Itoa(n) : n \in 0..quota}
\* Content-Type values
ContentTypes == {CONTENT_TYPE_OFFSET_OCTET_STREAM, "application/octet-stream"}
\* the POST /files header values sent where requests are handled
\* concurrently: Upload-Length "2" and "5", Upload-Metadata absent and "k !"
UploadLengthsConc == {<<50>>, <<53>>}
UploadMetadatasConc == {<<>>, <<107, 32, 33>>}
\* more Upload-Length values: "1", "5" (over MAX_SIZE), "x", "100" (over the
\* largest int) and "-1"
UploadLengthsReg == {<<49>>, <<53>>, <<120>>, <<49, 48, 48>>, <<45, 49>>}
\* more Upload-Metadata values: absent, "k !" (not base64) and the key
\* U+00E9 in UTF-8 (not ASCII)
UploadMetadatasReg == {<<>>, <<107, 32, 33>>, <<195, 169>>}
\* the Upload-Length values sent where two uploads are created: "1" and "5"
UploadLengthsTwo == {<<49>>, <<53>>}
\* the one id that uuid.NewUUID hands out where one upload is enough
OneUUID == {<<117, 49>>}

\* Upload-Metadata values that put validateMetadata to the test: keys of 'k's
\* with or without one "e acute" (bytes 195 169), which sits at the start,
\* after one byte, or at the byte index MaxASCII or MaxASCII + 1
Rep(n, c) == [i \in 1..n |-> c]
CodecKeys ==
  {Rep(n, 107) \o mid \o Rep(m, 107) :
     n \in {0, 1, MaxASCII, MaxASCII + 1}, mid \in {<<>>, <<195, 169>>}, m \in {0, 1}} \ {<<>>}
\* values: none, "dg==", "!" and "dg=" (padding cut short)
CodecValues == {<<>>, <<100, 103, 61, 61>>, <<33>>, <<100, 103, 61>>}
CodecPairs == {IF v = <<>> THEN k ELSE k \o <<32>> \o v : k \in CodecKeys, v \in CodecValues}
\* pairs that pass: "k dg==" and "k"
GoodPairs == {<<107, 32, 100, 103, 61, 61>>, <<107>>}
\* one pair, or two with the pair under test first or second
CodecMetadatas ==
  CodecPairs
  \cup {a \o <<44>> \o b : a \in CodecPairs, b \in GoodPairs}
  \cup {a \o <<44>> \o b : a \in GoodPairs, b \in CodecPairs}
\* Upload-Length "1"
UploadLengthsOne == {<<49>>}

\* what the clients send while a specification runs: at most quota bytes to
\* one upload, POST /files with the header values lengths and metadatas, and
\* paths with the ids that uuid.NewUUID hands out (ids) or an unknown one
Clients(quota, ids, lengths, metadatas) ==
  [quota |-> quota, ids |-> ids, lengths |-> lengths, metadatas |-> metadatas]

\* ------------------------------------------------------------------- state
VARIABLES
  storage,   \* the Storage map of buildServeMux: id.String() -> *File, or Nil
  disk,      \* uploadDir: file name -> content, or NoFile
  issued,    \* the UUIDs uuid.NewUUID has returned
  pc,        \* where each handler goroutine is
  req,       \* the request a goroutine in PATCH /files/{id} is handling
  body,      \* what is left to read of its r.Body
  werr,      \* the error its File.write returned
  base,      \* File.Offset when its File.write took File.mu (history)
  flushed,   \* bytes its File.write has written in whole blocks (history)
  acked,     \* per upload, the bodies of the PATCH requests whose File.write
             \* returned nil, concatenated in that order (history)
  taken,     \* per upload, what each finished File.write call got into the
             \* file, as a prefix of its body, concatenated (history)
  returned,  \* the ids that responses to POST /files carried in Location
             \* (history)
  out,       \* the request and response of the handler that returned in the
             \* last step, NoExchange when none did
  srv,       \* the Server: "running", "draining" (in Shutdown) or "stopped";
             \* "crashed" when the runtime has ended the process
  elapsed,   \* time since Shutdown was called, in ticks
  shutdownErr, \* what Shutdown returned: "none" while it has not
  inflight0, \* the goroutines handling a request when Shutdown was called
             \* (history)
  drained    \* those of them whose handler returned while Shutdown was
             \* waiting, each with the status of its response (history)

\* the state of the Server that wraps the mux
down == <<srv, elapsed, shutdownErr, inflight0, drained>>

vars == <<storage, disk, issued, pc, req, body, werr, base, flushed, acked, taken, returned, out,
          srv, elapsed, shutdownErr, inflight0, drained>>

\* ------------------------------------------------------ http.ResponseWriter
HeaderNames == {"Tus-Resumable", "Tus-Version", "Tus-Extension", "Tus-Max-Size",
                "Location", "Upload-Offset", "Upload-Metadata"}

NewResponseWriter == [written |-> FALSE, status |-> 0, header |-> [h \in HeaderNames |-> NoHeader]]

\* w.Header().Set(k, v): the header map is sent by the first WriteHeader, a
\* later Set does not reach the client
Set(rw, k, v) == IF rw.written THEN rw ELSE [rw EXCEPT !.header[k] = v]

\* w.WriteHeader(code): only the first call counts
WriteHeader(rw, code) == IF rw.written THEN rw ELSE [rw EXCEPT !.written = TRUE, !.status = code]

\* res.Header.Get(k) on the client: "" for an absent header
Get(rw, k) == IF rw.header[k] = NoHeader THEN <<>> ELSE rw.header[k]

\* a handler without the default
OrZero_AsIs(v) == v

\* r.Header.Get(k) with the handlers' default for an absent or empty value
OrZero(v) == IF Len(v) <= 0 THEN <<48>> ELSE v

NoRequest == [method |-> "none"]
NoExchange == [req |-> NoRequest, w |-> NewResponseWriter]

\* ---------------------------------------------------------------- File
Min(a, b) == IF a < b THEN a ELSE b

\* a File built without its Metadata field
NewFile_NoMetadata(id, l, metadata) == [ID |-> id, Size |-> l, Offset |-> 0, mu |-> FALSE, Metadata |-> <<>>]

NewFile(id, l, metadata) == [ID |-> id, Size |-> l, Offset |-> 0, mu |-> FALSE, Metadata |-> metadata]

\* writeToFile that counts File.Size down by what it wrote
writeToFile_CountsDown(f, content, buff, wrote) ==
  IF wrote < Len(buff)
  THEN [f |-> f, content |-> content \o SubSeq(buff, 1, wrote), err |-> TRUE]
  ELSE [f |-> [f EXCEPT !.Offset = f.Offset + Len(buff), !.Size = f.Size - Len(buff)],
        content |-> content \o buff, err |-> FALSE]

\* writeToFile on a file opened without O_APPEND: the write lands at position 0
writeToFile_NoAppend(f, content, buff, wrote) ==
  LET put == SubSeq(buff, 1, Min(wrote, Len(buff)))
      after == put \o SubSeq(content, Len(put) + 1, Len(content))
  IN IF wrote < Len(buff)
     THEN [f |-> f, content |-> after, err |-> TRUE]
     ELSE [f |-> [f EXCEPT !.Offset = f.Offset + Len(buff)], content |-> after, err |-> FALSE]

\* writeToFile that sets the offset to the block length instead of adding it
writeToFile_Reset(f, content, buff, wrote) ==
  IF wrote < Len(buff)
  THEN [f |-> f, content |-> content \o SubSeq(buff, 1, wrote), err |-> TRUE]
  ELSE [f |-> [f EXCEPT !.Offset = Len(buff)], content |-> content \o buff, err |-> FALSE]

\* writeToFile that counts the whole buffer, not the bytes read into it
writeToFile_Cap(f, content, buff, wrote) ==
  IF wrote < Len(buff)
  THEN [f |-> f, content |-> content \o SubSeq(buff, 1, wrote), err |-> TRUE]
  ELSE [f |-> [f EXCEPT !.Offset = f.Offset + CHUNK_SIZE], content |-> content \o buff, err |-> FALSE]

\* writeToFile that advances the offset before it looks at the write error
writeToFile_OffsetFirst(f, content, buff, wrote) ==
  IF wrote < Len(buff)
  THEN [f |-> [f EXCEPT !.Offset = f.Offset + Len(buff)],
        content |-> content \o SubSeq(buff, 1, wrote), err |-> TRUE]
  ELSE [f |-> [f EXCEPT !.Offset = f.Offset + Len(buff)], content |-> content \o buff, err |-> FALSE]

\* File.writeToFile(file, buff) on a file opened O_APPEND with the given
\* content; wrote is the byte count file.Write returns, below len(buff) exactly
\* when it returns an error
writeToFile(f, content, buff, wrote) ==
  IF wrote < Len(buff)
  THEN [f |-> f, content |-> content \o SubSeq(buff, 1, wrote), err |-> TRUE]
  ELSE [f |-> [f EXCEPT !.Offset = f.Offset + Len(buff)], content |-> content \o buff, err |-> FALSE]


Init ==
  /\ storage = [id \in PathIds |-> Nil]
  /\ disk = [id \in UUIDs |-> NoFile]
  /\ issued = {}
  /\ pc = [p \in Procs |-> "idle"]
  /\ req = [p \in Procs |-> NoRequest]
  /\ body = [p \in Procs |-> <<>>]
  /\ werr = [p \in Procs |-> FALSE]
  /\ base = [p \in Procs |-> 0]
  /\ flushed = [p \in Procs |-> 0]
  /\ acked = [id \in UUIDs |-> <<>>]
  /\ taken = [id \in UUIDs |-> <<>>]
  /\ returned = {}
  /\ out = NoExchange
  /\ srv = "running"
  /\ elapsed = 0
  /\ shutdownErr = "none"
  /\ inflight0 = {}
  /\ drained = {}

\* a Server that takes new requests until Shutdown has returned
Accepting_WhileDraining == srv \in {"running", "draining"}

\* the Server takes new requests until Shutdown is called
Accepting == srv = "running"

\* goroutine p is free to serve a request; net/http is not in the middle of
\* sending a response
Idle(p) == pc[p] = "idle" /\ out = NoExchange /\ Accepting

\* goroutine p is at the given place of its handler and can take a step: the
\* process has not been ended by a runtime fault
At(p, place) == pc[p] = place /\ out = NoExchange /\ srv # "crashed"

\* the Server sees the handler on goroutine p return with status code
Done(p, code) ==
  /\ drained' = IF srv = "draining"
                THEN drained \cup {[p |-> p, status |-> code]} ELSE drained
  /\ UNCHANGED <<srv, elapsed, shutdownErr, inflight0>>

\* the handler on goroutine p returns: r was its request, rw is its response
Return(p, r, rw) ==
  /\ out' = [req |-> r, w |-> rw]
  /\ pc' = [pc EXCEPT ![p] = "idle"]
  /\ req' = [req EXCEPT ![p] = NoRequest]
  /\ body' = [body EXCEPT ![p] = <<>>]
  /\ werr' = [werr EXCEPT ![p] = FALSE]
  /\ base' = [base EXCEPT ![p] = 0]
  /\ flushed' = [flushed EXCEPT ![p] = 0]

\* ---------------------------------------------------------- OPTIONS /files
OptionsResponse ==
  LET w1 == Set(NewResponseWriter, "Tus-Resumable", TUS_PROTOCOL_VERSION)
      w2 == Set(w1, "Tus-Version", TUS_PROTOCOL_VERSION)
      w3 == Set(w2, "Tus-Extension", SUPPORTED_EXTENSION)
      w4 == Set(w3, "Tus-Max-Size", Itoa(MAX_SIZE))
  IN WriteHeader(w4, StatusNoContent)

OptionsFiles(p) ==
  /\ Idle(p)
  /\ Return(p, [method |-> "OPTIONS"], OptionsResponse)
  /\ UNCHANGED <<storage, disk, issued, acked, taken, returned>>
  /\ UNCHANGED down

\* ------------------------------------------------------------- POST /files
\* the response headers the handler sets before each early return
Rejected(rw, code) ==
  WriteHeader(Set(Set(rw, "Tus-Max-Size", Itoa(MAX_SIZE)), "Tus-Resumable", TUS_PROTOCOL_VERSION), code)

\* uuid.NewUUID that may return an id it has returned before
NewUUID_Repeats(ids) == ids

\* the ids uuid.NewUUID can return: version 1 UUIDs of one process never repeat
NewUUID(ids) == ids \ issued

\* a registry that keeps only the session it was given last
Insert_Single(id, f) == [i \in PathIds |-> IF i = id THEN f ELSE Nil]

\* storage[id.String()] = f
Insert(id, f) == [storage EXCEPT ![id] = f]

\* the handler up to the return of f.create; it goes on to the insert into
\* storage when f.create returned nil
PostFiles(p, in) ==
  /\ Idle(p)
  /\ \E uploadLength \in in.lengths, metadata \in in.metadatas :
       LET r == [method |-> "POST", uploadLength |-> uploadLength, uploadMetadata |-> metadata]
           l == Atoi(OrZero(uploadLength))
           \* a parse error writes 411 and the handler goes on with l = 0
           w1 == IF l.err THEN WriteHeader(NewResponseWriter, StatusLengthRequired)
                          ELSE NewResponseWriter
       IN IF l.val > MAX_SIZE
          THEN /\ Return(p, r, Rejected(w1, StatusRequestEntityTooLarge))
               /\ UNCHANGED <<storage, disk, issued, returned>>
          ELSE IF validateMetadata(metadata)
          THEN /\ Return(p, r, Rejected(w1, StatusBadRequest))
               /\ UNCHANGED <<storage, disk, issued, returned>>
          ELSE \/ \* uuid.NewUUID fails
                  /\ Return(p, r, Rejected(w1, StatusInternalServerError))
                  /\ UNCHANGED <<storage, disk, issued, returned>>
               \/ \* os.Create in File.create succeeds (created) or fails
                  \E id \in NewUUID(in.ids), created \in BOOLEAN :
                    /\ issued' = issued \cup {id}
                    /\ disk' = IF created THEN [disk EXCEPT ![id] = <<>>] ELSE disk
                    /\ UNCHANGED <<storage, returned>>
                    /\ IF created
                       THEN /\ pc' = [pc EXCEPT ![p] = "insert"]
                            /\ req' = [req EXCEPT ![p] =
                                         [method |-> "POST", uploadLength |-> uploadLength,
                                          uploadMetadata |-> metadata, id |-> id,
                                          l |-> l.val, w |-> w1]]
                            /\ out' = NoExchange
                            /\ UNCHANGED <<body, werr, base, flushed>>
                       ELSE Return(p, r, Rejected(w1, StatusInternalServerError))
  /\ UNCHANGED <<acked, taken>>
  /\ UNCHANGED down

\* the handler from storage[id.String()] = f to its return with 201 Created
PostInsert(p) ==
  /\ At(p, "insert")
  /\ LET id == req[p].id
         w2 == WriteHeader(Set(Set(req[p].w, "Location", id),
                               "Tus-Resumable", TUS_PROTOCOL_VERSION),
                           StatusCreated)
     IN /\ storage' = Insert(id, NewFile(id, req[p].l, req[p].uploadMetadata))
        /\ returned' = IF w2.header["Location"] = id
                       THEN returned \cup {id} ELSE returned
        /\ Return(p, [method |-> "POST", uploadLength |-> req[p].uploadLength,
                      uploadMetadata |-> req[p].uploadMetadata], w2)
  /\ UNCHANGED <<disk, issued, acked, taken>>
  /\ Done(p, StatusCreated)

\* -------------------------------------------------------- HEAD /files/{id}
\* a HEAD handler that reports File.Size as the offset
HeadResponse_ReportsSize(fileId) ==
  LET file == storage[fileId]
  IN IF file = Nil
     THEN WriteHeader(NewResponseWriter, StatusNotFound)
     ELSE WriteHeader(Set(Set(Set(NewResponseWriter,
                                  "Tus-Resumable", TUS_PROTOCOL_VERSION),
                              "Upload-Offset", Itoa(file.Size)),
                          "Upload-Metadata", file.Metadata),
                      StatusOK)

HeadResponse(fileId) ==
  LET file == storage[fileId]
  IN IF file = Nil
     THEN WriteHeader(NewResponseWriter, StatusNotFound)
     ELSE WriteHeader(Set(Set(Set(NewResponseWriter,
                                  "Tus-Resumable", TUS_PROTOCOL_VERSION),
                              "Upload-Offset", Itoa(file.Offset)),
                          "Upload-Metadata", file.Metadata),
                      StatusOK)

\* File.Offset is read without File.mu
HeadFile(p, in) ==
  /\ Idle(p)
  /\ \E fileId \in in.ids \cup {UnknownId} :
       Return(p, [method |-> "HEAD", id |-> fileId], HeadResponse(fileId))
  /\ UNCHANGED <<storage, disk, issued, acked, taken, returned>>
  /\ UNCHANGED down

\* ------------------------------------------------------- PATCH /files/{id}
\* a handler that looks at the content type last
PatchCheck_TypeLast(contentType, fileId, offsetValue) ==
  LET file == storage[fileId]
      offset == Atoi(OrZero(offsetValue))
  IN IF file = Nil THEN StatusNotFound
     ELSE IF offset.err THEN StatusBadRequest
     ELSE IF offset.val # file.Offset THEN StatusConflict
     ELSE IF contentType # CONTENT_TYPE_OFFSET_OCTET_STREAM THEN StatusUnsupportedMediaType
     ELSE 0

\* a handler that only rejects offsets ahead of File.Offset
PatchCheck_OnlyAhead(contentType, fileId, offsetValue) ==
  LET file == storage[fileId]
      offset == Atoi(OrZero(offsetValue))
  IN IF contentType # CONTENT_TYPE_OFFSET_OCTET_STREAM THEN StatusUnsupportedMediaType
     ELSE IF file = Nil THEN StatusNotFound
     ELSE IF offset.err THEN StatusBadRequest
     ELSE IF offset.val > file.Offset THEN StatusConflict
     ELSE 0

\* a handler that parses Upload-Offset before it looks the upload up
PatchCheck_ParseFirst(contentType, fileId, offsetValue) ==
  LET file == storage[fileId]
      offset == Atoi(OrZero(offsetValue))
  IN IF contentType # CONTENT_TYPE_OFFSET_OCTET_STREAM THEN StatusUnsupportedMediaType
     ELSE IF offset.err THEN StatusBadRequest
     ELSE IF file = Nil THEN StatusNotFound
     ELSE IF offset.val # file.Offset THEN StatusConflict
     ELSE 0

\* the handler up to the call of file.write: the status it returns with, or 0
\* when it goes on to file.write
PatchCheck(contentType, fileId, offsetValue) ==
  LET file == storage[fileId]
      offset == Atoi(OrZero(offsetValue))
  IN IF contentType # CONTENT_TYPE_OFFSET_OCTET_STREAM THEN StatusUnsupportedMediaType
     ELSE IF file = Nil THEN StatusNotFound
     ELSE IF offset.err THEN StatusBadRequest
     ELSE IF offset.val # file.Offset THEN StatusConflict
     ELSE 0

\* bytes the clients have sent or are sending to upload id
Sent(id) ==
  LET inFlight == {q \in Procs : pc[q] \in {"lock", "loop"} /\ req[q].id = id}
      RECURSIVE Sum(_)
      Sum(S) == IF S = {} THEN 0 ELSE LET q == CHOOSE x \in S : TRUE IN Len(body[q]) + Sum(S \ {q})
  IN (IF disk[id] = NoFile THEN 0 ELSE Len(disk[id])) + Sum(inFlight)

\* the handler from its start to the offset comparison (File.Offset is read
\* here without File.mu)
PatchFile(p, in) ==
  /\ Idle(p)
  /\ \E contentType \in ContentTypes, fileId \in in.ids \cup {UnknownId},
        offsetValue \in UploadOffsets(in.quota) :
       LET r == [method |-> "PATCH", id |-> fileId, contentType |-> contentType,
                 uploadOffset |-> offsetValue]
           w1 == Set(NewResponseWriter, "Tus-Resumable", TUS_PROTOCOL_VERSION)
           code == PatchCheck(contentType, fileId, offsetValue)
       IN IF code # 0
          THEN Return(p, r, WriteHeader(w1, code))
          ELSE \E b \in Bodies :
                 /\ Sent(fileId) + Len(b) <= in.quota
                 /\ pc' = [pc EXCEPT ![p] = "lock"]
                 /\ req' = [req EXCEPT ![p] = [method |-> "PATCH", id |-> fileId,
                                                contentType |-> contentType,
                                                uploadOffset |-> offsetValue, body |-> b]]
                 /\ body' = [body EXCEPT ![p] = b]
                 /\ out' = NoExchange
                 /\ UNCHANGED <<werr, base, flushed>>
  /\ UNCHANGED <<storage, disk, issued, acked, taken, returned>>
  /\ UNCHANGED down

\* one mutex shared by all Files
Locked_Any(id) == \E i \in UUIDs : storage[i] # Nil /\ storage[i].mu

\* File.mu of upload id is held
Locked(id) == storage[id].mu

\* a File.write without its defer statement
Deferred_Missing(f, returns) == [f EXCEPT !.mu = TRUE]

\* f as File.write leaves it: the deferred f.mu.Unlock() runs when it returns
Deferred(f, returns) == [f EXCEPT !.mu = ~returns]

\* File.write from f.mu.Lock() to os.OpenFile; on an open error the deferred
\* Unlock runs and write returns the error
WriteLock(p) ==
  /\ At(p, "lock")
  /\ LET id == req[p].id
     IN /\ ~Locked(id)
        /\ base' = [base EXCEPT ![p] = storage[id].Offset]
        /\ \/ \* os.OpenFile fails
              /\ werr' = [werr EXCEPT ![p] = TRUE]
              /\ pc' = [pc EXCEPT ![p] = "ret"]
              /\ body' = [body EXCEPT ![p] = <<>>]
              /\ storage' = [storage EXCEPT ![id] = Deferred(@, TRUE)]
              /\ UNCHANGED disk
           \/ \* O_CREATE makes the file when it is missing
              /\ storage' = [storage EXCEPT ![id] = Deferred(@, FALSE)]
              /\ disk' = [disk EXCEPT ![id] = IF @ = NoFile THEN <<>> ELSE @]
              /\ pc' = [pc EXCEPT ![p] = "loop"]
              /\ UNCHANGED <<werr, body>>
  /\ out' = NoExchange
  /\ UNCHANGED <<issued, req, flushed, acked, taken, returned>>
  /\ UNCHANGED down

\* what reader.Read(buff) can return when rem is left of the body:
\* n bytes and no error, the last bytes with io.EOF, or n bytes and an error
ReadResults(rem) ==
  {[n |-> n, err |-> "nil"] : n \in 1..Min(CHUNK_SIZE, Len(rem))}
  \cup (IF Len(rem) <= CHUNK_SIZE THEN {[n |-> Len(rem), err |-> "EOF"]} ELSE {})
  \cup {[n |-> n, err |-> "error"] : n \in 0..Min(CHUNK_SIZE, Len(rem))}

\* one round of the loop of File.write: a Read and the writeToFile of what it
\* returned; write returns (and unlocks) on an error and on io.EOF
WriteLoop(p) ==
  /\ At(p, "loop")
  /\ LET id == req[p].id
     IN \E rd \in ReadResults(body[p]) :
          LET buff == SubSeq(body[p], 1, rd.n)
          IN IF rd.err = "error"
             THEN /\ storage' = [storage EXCEPT ![id] = Deferred(@, TRUE)]
                  /\ werr' = [werr EXCEPT ![p] = TRUE]
                  /\ pc' = [pc EXCEPT ![p] = "ret"]
                  /\ body' = [body EXCEPT ![p] = <<>>]
                  /\ taken' = [taken EXCEPT ![id] = @ \o SubSeq(req[p].body, 1, flushed[p])]
                  /\ UNCHANGED <<disk, flushed, acked>>
             ELSE \E wrote \in 0..Len(buff) :
                    LET wr == writeToFile(storage[id], disk[id], buff, wrote)
                        return == wr.err \/ rd.err = "EOF"
                    IN /\ disk' = [disk EXCEPT ![id] = wr.content]
                       /\ storage' = [storage EXCEPT ![id] = Deferred(wr.f, return)]
                       /\ werr' = [werr EXCEPT ![p] = wr.err]
                       /\ flushed' = [flushed EXCEPT ![p] = IF wr.err THEN @ ELSE @ + Len(buff)]
                       /\ taken' = [taken EXCEPT ![id] =
                                      IF return THEN @ \o SubSeq(req[p].body, 1, flushed[p] + wrote) ELSE @]
                       /\ acked' = [acked EXCEPT ![id] =
                                      IF return /\ ~wr.err THEN @ \o req[p].body ELSE @]
                       /\ body' = [body EXCEPT ![p] = IF return THEN <<>> ELSE SubSeq(@, rd.n + 1, Len(@))]
                       /\ pc' = [pc EXCEPT ![p] = IF return THEN "ret" ELSE "loop"]
  /\ out' = NoExchange
  /\ UNCHANGED <<issued, req, base, returned>>
  /\ UNCHANGED down

\* the handler after file.write has returned (File.Offset is read again here,
\* without File.mu)
PatchRespond(p) ==
  /\ At(p, "ret")
  /\ LET file == storage[req[p].id]
         w1 == Set(NewResponseWriter, "Tus-Resumable", TUS_PROTOCOL_VERSION)
     IN Return(p, [method |-> "PATCH", id |-> req[p].id, contentType |-> req[p].contentType,
                   uploadOffset |-> req[p].uploadOffset, contentLength |-> Len(req[p].body)],
               IF werr[p] THEN WriteHeader(w1, StatusInternalServerError)
               ELSE WriteHeader(Set(w1, "Upload-Offset", Itoa(file.Offset)), StatusNoContent))
  /\ UNCHANGED <<storage, disk, issued, acked, taken, returned>>
  /\ Done(p, IF werr[p] THEN StatusInternalServerError ELSE StatusNoContent)

\* net/http has sent the response of the handler that returned
ResponseSent ==
  /\ out # NoExchange
  /\ out' = NoExchange
  /\ UNCHANGED <<storage, disk, issued, pc, req, body, werr, base, flushed, acked, taken, returned>>
  /\ UNCHANGED down

\* a step of the handler goroutine p
Handler(p, in) ==
  \/ OptionsFiles(p)
  \/ PostFiles(p, in)
  \/ PostInsert(p)
  \/ HeadFile(p, in)
  \/ PatchFile(p, in)
  \/ WriteLock(p)
  \/ WriteLoop(p)
  \/ PatchRespond(p)

\* goroutine p is about to insert into storage while goroutine q is about to
\* insert too, or is free to run a handler, each of which starts with a lookup
\* or ends with an insert: storage is a plain map and nothing orders the two
\* accesses
MapRace(p, q) ==
  /\ p # q
  /\ pc[p] = "insert"
  /\ pc[q] = "insert" \/ (pc[q] = "idle" /\ Accepting)

\* the Go runtime finds the map being written while it is accessed and ends
\* the process ("fatal error: concurrent map writes", "concurrent map read and
\* map write"); when it does not, the accesses take effect one after the other
MapFault ==
  /\ out = NoExchange /\ srv # "crashed"
  /\ \E p \in Procs, q \in Procs : MapRace(p, q)
  /\ srv' = "crashed"
  /\ UNCHANGED <<elapsed, shutdownErr, inflight0, drained>>
  /\ UNCHANGED <<storage, disk, issued, pc, req, body, werr, base, flushed, acked, taken, returned, out>>

\* requests are handled concurrently, one goroutine each
Next ==
  \/ ResponseSent
  \/ MapFault
  \/ \E p \in Procs : Handler(p, Clients(MaxStore, OneUUID, UploadLengthsConc, UploadMetadatasConc))

Spec == Init /\ [][Next]_vars

\* one client that waits for each response before its next request, as the
\* tests do: a single handler goroutine runs at a time
SeqProcs == {"h1"}

NextSeq ==
  \/ ResponseSent
  \/ \E p \in SeqProcs : Handler(p, Clients(MaxStoreSeq, OneUUID, UploadLengths, UploadMetadatas))

SpecSeq == Init /\ [][NextSeq]_vars

\* the same client, creating up to two uploads
NextReg ==
  \/ ResponseSent
  \/ \E p \in SeqProcs : Handler(p, Clients(MaxStoreReg, UUIDs, UploadLengthsTwo, UploadMetadatas))

SpecReg == Init /\ [][NextReg]_vars

\* the same client, sending more kinds of POST /files requests
NextCreate ==
  \/ ResponseSent
  \/ \E p \in SeqProcs : Handler(p, Clients(MaxStoreReg, OneUUID, UploadLengthsReg, UploadMetadatasReg))

SpecCreate == Init /\ [][NextCreate]_vars

\* two clients at once, each with an upload of its own: goroutine h1 serves
\* the requests of the first, h2 those of the second
OwnUpload(p) == IF p = "h1" THEN {<<117, 49>>} ELSE {<<117, 50>>}

NextTwo ==
  \/ ResponseSent
  \/ MapFault
  \/ \E p \in Procs : Handler(p, Clients(MaxStoreTwo, OwnUpload(p), UploadLengthsOne, UploadMetadatasConc))

SpecTwo == Init /\ [][NextTwo]_vars

\* concurrent requests under a fair scheduler: a goroutine that can run again
\* and again does run (the Go scheduler preempts), a goroutine waiting for
\* File.mu gets it when it is unlocked again and again (sync.Mutex hands the
\* lock to a waiter that has waited long), and net/http sends each response
NextLive ==
  \/ ResponseSent
  \/ MapFault
  \/ \E p \in Procs : Handler(p, Clients(MaxStoreLive, OneUUID, UploadLengthsOne, UploadMetadatasConc))

\* the next step of goroutine p from the call of file.write to the return of
\* its handler
AppendStep(p) == WriteLock(p) \/ WriteLoop(p) \/ PatchRespond(p)

Fairness ==
  /\ WF_vars(ResponseSent)
  /\ \A p \in Procs : SF_vars(AppendStep(p))

SpecLive == Init /\ [][NextLive]_vars /\ Fairness

\* the same client, sending POST /files with all kinds of Upload-Metadata
NextCodec ==
  \/ ResponseSent
  \/ \E p \in SeqProcs : PostFiles(p, Clients(0, OneUUID, UploadLengthsOne, CodecMetadatas))
  \/ \E p \in SeqProcs : PostInsert(p)

SpecCodec == Init /\ [][NextCodec]_vars

\* ------------------------------------------------------------------ Server
\* ServerConfig.ShutdownTimeoutSeconds, in ticks of the clock
ShutdownTimeout == 2

\* the goroutines that are handling a request
InFlight == {p \in Procs : pc[p] # "idle"}

\* a deadline that passes one tick late
Expired_Late(t) == t > ShutdownTimeout

\* the timeout has elapsed t ticks after Shutdown was called
Expired(t) == t >= ShutdownTimeout

\* a Shutdown that closes the connections of the requests in flight
Shutdown_Closes ==
  /\ srv = "running" /\ out = NoExchange
  /\ srv' = "draining"
  /\ elapsed' = 0
  /\ inflight0' = InFlight
  /\ pc' = [p \in Procs |-> "idle"]
  /\ UNCHANGED <<shutdownErr, drained>>
  /\ UNCHANGED <<storage, disk, issued, req, body, werr, base, flushed, acked, taken, returned, out>>

\* Server.Shutdown is called: the Server stops accepting and starts to wait
\* for the requests in flight
Shutdown ==
  /\ srv = "running" /\ out = NoExchange
  /\ srv' = "draining"
  /\ elapsed' = 0
  /\ inflight0' = InFlight
  /\ UNCHANGED <<shutdownErr, drained>>
  /\ UNCHANGED <<storage, disk, issued, pc, req, body, werr, base, flushed, acked, taken, returned, out>>

\* no request is in flight any more: Shutdown returns nil
ShutdownDrained ==
  /\ srv = "draining" /\ out = NoExchange
  /\ InFlight = {}
  /\ srv' = "stopped"
  /\ shutdownErr' = "nil"
  /\ UNCHANGED <<elapsed, inflight0, drained>>
  /\ UNCHANGED <<storage, disk, issued, pc, req, body, werr, base, flushed, acked, taken, returned, out>>

\* time passes while Shutdown waits for a request; when the timeout has
\* elapsed Shutdown returns context.DeadlineExceeded and the requests still in
\* flight go on
Tick ==
  /\ srv = "draining" /\ out = NoExchange
  /\ InFlight # {}
  /\ elapsed' = elapsed + 1
  /\ IF Expired(elapsed + 1)
     THEN srv' = "stopped" /\ shutdownErr' = "DeadlineExceeded"
     ELSE UNCHANGED <<srv, shutdownErr>>
  /\ UNCHANGED <<inflight0, drained>>
  /\ UNCHANGED <<storage, disk, issued, pc, req, body, werr, base, flushed, acked, taken, returned, out>>

\* the mux served by a Server that is shut down at some time
NextDown ==
  \/ ResponseSent
  \/ \E p \in Procs : Handler(p, Clients(MaxStoreDown, OneUUID, UploadLengthsConc, UploadMetadatasConc))
  \/ MapFault
  \/ Shutdown
  \/ ShutdownDrained
  \/ Tick

SpecDown == Init /\ [][NextDown]_vars

\* ================================================================ claims
\* the PATCH request that goroutine p's handler takes up in this step, when
\* its offset comparison lets it through
Accepts(p) == pc[p] = "idle" /\ pc'[p] = "lock"

\* a PATCH handler returns in this step before it calls file.write
Rejects ==
  /\ out = NoExchange /\ out' # NoExchange
  /\ out'.req.method = "PATCH"
  /\ pc' = pc

\* r is an append to an existing session (resumable content type, parsable
\* Upload-Offset) whose expected offset is not the session's offset
Stale(r) ==
  /\ r.contentType = CONTENT_TYPE_OFFSET_OCTET_STREAM
  /\ storage[r.id] # Nil
  /\ ~Atoi(OrZero(r.uploadOffset)).err
  /\ Atoi(OrZero(r.uploadOffset)).val # storage[r.id].Offset

\* C1: an append to an existing session whose expected offset differs from the
\* session's offset is never let through to file.write; it returns 409
\* Conflict and leaves storage and the upload directory as they were (so
\* that the same request, sent again, meets the same state).
C1_StaleOffsetConflict ==
  [][ /\ \A p \in Procs : Accepts(p) => ~Stale(req'[p])
      /\ Rejects /\ Stale(out'.req) =>
           /\ out'.w.status = StatusConflict
           /\ storage' = storage /\ disk' = disk
    ]_vars

\* a PATCH at an offset below the session's offset was answered 409
C1_Witness ==
  /\ out.req.method = "PATCH"
  /\ out.w.status = StatusConflict
  /\ Atoi(OrZero(out.req.uploadOffset)).val < storage[out.req.id].Offset

\* C2: of two PATCH requests in flight on one session with the same
\* Upload-Offset and non-empty bodies, at most one is let through and writes
\* bytes to the file.
C2_OneAcceptedPerOffset ==
  \A p, q \in Procs :
    /\ p # q
    /\ pc[p] \in {"lock", "loop", "ret"} /\ pc[q] \in {"lock", "loop", "ret"}
    /\ req[p].id = req[q].id
    /\ Atoi(OrZero(req[p].uploadOffset)).val = Atoi(OrZero(req[q].uploadOffset)).val
    => ~(flushed[p] > 0 /\ flushed[q] > 0)

\* C3: for every session, File.Offset is the number of bytes in its file.
C3_OffsetIsStoreLength ==
  \A id \in UUIDs : storage[id] # Nil => storage[id].Offset = Len(disk[id])

\* the goroutines inside the loop of File.write on upload id
Writing(id) == {p \in Procs : pc[p] = "loop" /\ req[p].id = id}

\* C4 as claimed: once no append is writing to it, a session's file holds the
\* bodies of exactly the successful appends, in the order they were applied
\* (stated for the sessions whose offset and file length agree, which leaves
\* the short writes of C3 aside).
C4_StoreIsAckedBodies ==
  \A id \in UUIDs :
    storage[id] # Nil /\ Writing(id) = {} /\ storage[id].Offset = Len(disk[id])
    => disk[id] = acked[id]

\* C4 as amended: a session's file holds, in the order the appends held
\* File.mu, what each append wrote of its body: the whole body of a
\* successful append and, of an append that failed midway, the prefix written
\* before the failure (for the append writing now, the blocks flushed so far).
C4_StoreIsWrittenPrefixes ==
  \A id \in UUIDs :
    disk[id] # NoFile =>
      \/ Writing(id) = {} /\ disk[id] = taken[id]
      \/ \E p \in Writing(id) : disk[id] = taken[id] \o SubSeq(req[p].body, 1, flushed[p])

\* a failed append left bytes in the file and a later append succeeded
C4_Witness ==
  \E id \in UUIDs :
    /\ storage[id] # Nil /\ Writing(id) = {}
    /\ acked[id] # <<>> /\ Len(taken[id]) > Len(acked[id])
    /\ disk[id] = taken[id]

\* C5: no step lowers a session's offset or removes the session, and the
\* offset is never negative.
C5_OffsetMonotone ==
  [][\A id \in UUIDs :
       /\ storage'[id] # Nil => storage'[id].Offset >= 0
       /\ storage[id] # Nil =>
            /\ storage'[id] # Nil
            /\ storage'[id].Offset >= storage[id].Offset
    ]_vars

\* an append that resumed from a non-zero offset was answered 204
C5_Witness ==
  /\ out.req.method = "PATCH"
  /\ out.w.status = StatusNoContent
  /\ Atoi(OrZero(out.req.uploadOffset)).val > 0
  /\ storage[out.req.id].Offset >= 2

\* C6: with one request at a time, a PATCH of n bytes at Upload-Offset o that
\* is answered 204 carries Upload-Offset o+n, and a HEAD sent next reports o+n.
C6_AppendReturnsNewOffset ==
  out.req.method = "PATCH" /\ out.w.status = StatusNoContent =>
    LET o == Atoi(OrZero(out.req.uploadOffset)).val
        n == out.req.contentLength
        h == HeadResponse(out.req.id)
    IN /\ Get(out.w, "Upload-Offset") = Itoa(o + n)
       /\ h.status = StatusOK
       /\ Get(h, "Upload-Offset") = Itoa(o + n)

\* a chain of appends has reached the declared size
C6_Witness ==
  /\ out.req.method = "PATCH"
  /\ out.w.status = StatusNoContent
  /\ Atoi(OrZero(out.req.uploadOffset)).val > 0
  /\ out.req.contentLength > 0
  /\ storage[out.req.id].Offset = storage[out.req.id].Size

\* C7: when File.write returns an error after it has written k bytes in whole
\* blocks, File.Offset is its value when the call took the lock plus k, and
\* the handler answers 500.
C7_FailureKeepsFlushed ==
  [][\A p \in Procs :
       /\ pc[p] \in {"lock", "loop"} /\ pc'[p] = "ret" /\ werr'[p] =>
            storage'[req[p].id].Offset =
              (IF pc[p] = "lock" THEN storage[req[p].id].Offset ELSE base[p]) + flushed[p]
       /\ pc[p] = "ret" /\ werr[p] /\ pc'[p] = "idle" =>
            out'.w.status = StatusInternalServerError
    ]_vars

\* File.write has returned an error after it flushed a block
C7_Witness ==
  \E p \in Procs : pc[p] = "ret" /\ werr[p] /\ flushed[p] > 0

\* C8: right after a PATCH was answered 500, a HEAD reports an offset with
\* which a PATCH (resumable content type) passes the offset comparison.
C8_ResumeAfterFailure ==
  out.req.method = "PATCH" /\ out.w.status = StatusInternalServerError =>
    LET h == HeadResponse(out.req.id)
    IN /\ h.status = StatusOK
       /\ PatchCheck(CONTENT_TYPE_OFFSET_OCTET_STREAM, out.req.id, Get(h, "Upload-Offset")) = 0

\* a PATCH failed with 500 after part of its body was flushed
C8_Witness ==
  /\ out.req.method = "PATCH"
  /\ out.w.status = StatusInternalServerError
  /\ storage[out.req.id].Offset > Atoi(OrZero(out.req.uploadOffset)).val

\* C9: right after POST /files is answered 201, a HEAD on the id it returned
\* reports offset 0 and the Upload-Metadata value of the POST, byte for byte
\* ("" when there was none).
C9_StatusAfterCreate ==
  out.req.method = "POST" /\ out.w.status = StatusCreated =>
    LET h == HeadResponse(Get(out.w, "Location"))
    IN /\ h.status = StatusOK
       /\ Get(h, "Upload-Offset") = <<48>>
       /\ Get(h, "Upload-Metadata") = out.req.uploadMetadata

\* a POST with metadata was answered 201
C9_Witness ==
  /\ out.req.method = "POST"
  /\ out.w.status = StatusCreated
  /\ out.req.uploadMetadata # <<>>

\* C10: a HEAD for an id that no POST /files response has carried is answered
\* 404 and changes neither storage nor the upload directory.
C10_UnknownStatusNotFound ==
  [][ /\ out = NoExchange /\ out' # NoExchange
      /\ out'.req.method = "HEAD"
      /\ out'.req.id \notin returned
      => /\ out'.w.status = StatusNotFound
         /\ storage' = storage /\ disk' = disk
    ]_vars

\* the handler of a request with the given method returns in this step
Answers(method) ==
  /\ out = NoExchange /\ out' # NoExchange
  /\ out'.req.method = method

\* the Upload-Length value v writes a decimal number, and the number it writes
IsNumber(v) ==
  LET d == IF v # <<>> /\ v[1] \in {43, 45} THEN Tail(v) ELSE v
  IN d # <<>> /\ \A i \in 1..Len(d) : IsDigit(d[i])

Number(v) ==
  IF v[1] = 45 THEN 0 - DigitsVal(Tail(v))
  ELSE IF v[1] = 43 THEN DigitsVal(Tail(v))
  ELSE DigitsVal(v)

\* C11: a POST /files whose Upload-Length is a number above MAX_SIZE is
\* answered 413 Request Entity Too Large and changes neither storage nor the
\* upload directory.
C11_OversizeRejected ==
  [][ /\ Answers("POST")
      /\ IsNumber(out'.req.uploadLength)
      /\ Number(out'.req.uploadLength) > MAX_SIZE
      => /\ out'.w.status = StatusRequestEntityTooLarge
         /\ storage' = storage /\ disk' = disk
    ]_vars

\* the metadata rule of the protocol: some pair of the comma-separated list
\* has a key with a byte that is not ASCII, or a value that is not base64
CodecRejects(metadata) ==
  LET pairs == Split(metadata, 44)
  IN \E i \in 1..Len(pairs) :
       LET pair == TrimSpace(pairs[i])
           sp == IndexByte(pair, 32)
           k == IF sp # 0 THEN TrimSpace(SubSeq(pair, 1, sp - 1)) ELSE pair
           v == IF sp # 0 THEN TrimSpace(SubSeq(pair, sp + 1, Len(pair))) ELSE <<>>
       IN \/ v # <<>> /\ ~Base64Valid(v)
          \/ \E j \in 1..Len(k) : k[j] > MaxASCII

\* C12: a POST /files (with an Upload-Length that is a number within
\* MAX_SIZE) whose Upload-Metadata breaks the metadata rule is answered 400
\* Bad Request, registers no session and creates no file (left aside the
\* requests answered 500 because uuid.NewUUID or os.Create failed).
C12_InvalidMetadataRejected ==
  [][ /\ Answers("POST")
      /\ IsNumber(out'.req.uploadLength)
      /\ Number(out'.req.uploadLength) <= MAX_SIZE
      /\ CodecRejects(out'.req.uploadMetadata)
      /\ out'.w.status # StatusInternalServerError
      => /\ out'.w.status = StatusBadRequest
         /\ storage' = storage /\ disk' = disk
    ]_vars

\* C13: when f.create fails for the id that POST /files allocated, the
\* response is 500 Internal Server Error and the id is not registered; HEAD
\* and PATCH (resumable content type) on an id whose file was never created
\* are answered 404.
C13_NoPartialRegistration ==
  [][ /\ \A id \in UUIDs :
           Answers("POST") /\ id \in issued' \ issued /\ disk'[id] = NoFile
           => out'.w.status = StatusInternalServerError /\ storage'[id] = Nil
      /\ \A id \in UUIDs :
           /\ id \in issued /\ disk[id] = NoFile
           /\ Answers("HEAD") \/ (Answers("PATCH")
                                   /\ out'.req.contentType = CONTENT_TYPE_OFFSET_OCTET_STREAM)
           /\ out'.req.id = id
           => out'.w.status = StatusNotFound
    ]_vars

\* C14: a PATCH whose Content-Type is not application/offset+octet-stream is
\* never let through to file.write; it is answered 415 Unsupported Media Type
\* and changes neither storage nor the upload directory, whatever its
\* Upload-Offset.
C14_WrongTypeRejected ==
  [][ /\ \A p \in Procs :
           Accepts(p) => req'[p].contentType = CONTENT_TYPE_OFFSET_OCTET_STREAM
      /\ Answers("PATCH") /\ out'.req.contentType # CONTENT_TYPE_OFFSET_OCTET_STREAM
         => /\ out'.w.status = StatusUnsupportedMediaType
            /\ storage' = storage /\ disk' = disk
    ]_vars

\* a PATCH with the wrong content type and the session's current, non-zero
\* offset was answered 415
C14_Witness ==
  /\ out.req.method = "PATCH"
  /\ out.w.status = StatusUnsupportedMediaType
  /\ storage[out.req.id] # Nil
  /\ storage[out.req.id].Offset > 0
  /\ out.req.uploadOffset = Itoa(storage[out.req.id].Offset)

C16_NeverRemoved ==
  [][ \A id \in UUIDs :
        storage[id] # Nil =>
          /\ storage'[id] # Nil
          /\ storage'[id].ID = storage[id].ID
          /\ (Answers("HEAD") \/ Answers("PATCH")) /\ out'.req.id = id
             => out'.w.status # StatusNotFound
    ]_vars

\* with two sessions registered, a HEAD on one whose offset has reached its
\* non-zero size was answered 200
C16_Witness ==
  /\ \A id \in UUIDs : storage[id] # Nil
  /\ out.req.method = "HEAD"
  /\ out.w.status = StatusOK
  /\ storage[out.req.id].Size > 0
  /\ storage[out.req.id].Offset = storage[out.req.id].Size

\* C17: the offset of a session that POST /files returned never exceeds the
\* size the POST declared.
C17_OffsetWithinSize ==
  \A id \in returned : storage[id].Offset <= storage[id].Size

\* C18: a File.write that took File.mu when the session's offset was its size
\* writes no block and leaves the offset there (for the sessions that POST
\* /files returned).
C18_CompleteIsTerminal ==
  \A p \in Procs :
    /\ pc[p] \in {"loop", "ret"}
    /\ req[p].id \in returned
    /\ base[p] = storage[req[p].id].Size
    => flushed[p] = 0 /\ storage[req[p].id].Offset = storage[req[p].id].Size

\* C19: every response carries Tus-Resumable: 1.0.0.
C19_VersionOnEveryResponse ==
  out # NoExchange => Get(out.w, "Tus-Resumable") = TUS_PROTOCOL_VERSION

\* C20: Shutdown returns nil only before the timeout has elapsed and when
\* every request that was in flight when it was called has been handled; it
\* returns context.DeadlineExceeded only at the moment the timeout elapses
\* with one of those requests still being handled; it does not go on waiting
\* past the timeout, and what it returned does not change.
C20_ShutdownResult ==
  [][ /\ shutdownErr = "none" /\ shutdownErr' = "nil" =>
           /\ elapsed' < ShutdownTimeout
           /\ \A p \in inflight0 : pc'[p] = "idle"
      /\ shutdownErr = "none" /\ shutdownErr' = "DeadlineExceeded" =>
           /\ elapsed' = ShutdownTimeout
           /\ \E p \in inflight0 : pc'[p] # "idle"
      /\ srv' = "draining" => elapsed' < ShutdownTimeout
      /\ shutdownErr # "none" => shutdownErr' = shutdownErr
    ]_vars

\* Shutdown was called with two requests in flight and returned nil after
\* time had passed
C20_Witness ==
  /\ shutdownErr = "nil"
  /\ inflight0 = Procs
  /\ elapsed > 0

\* Shutdown has been called
ShutdownBegun == srv \in {"draining", "stopped"}

\* C21: once Shutdown has been called no new request is taken up, whatever
\* Shutdown returns later: the goroutines handling a request are among those
\* that were when it was called, none joins them, and a response that goes out
\* is the response to one of them.
C21_NoNewRequests ==
  [][ ShutdownBegun =>
        /\ InFlight \subseteq inflight0
        /\ InFlight' \subseteq InFlight
        /\ out = NoExchange /\ out' # NoExchange =>
             \E p \in InFlight : pc'[p] = "idle"
    ]_vars

\* Shutdown is waiting for one request while another goroutine is free
C21_Witness ==
  /\ srv = "draining"
  /\ elapsed >= 1
  /\ InFlight # {}
  /\ \E p \in Procs : pc[p] = "idle"

\* the status a handler that runs to its end responds with
NormalResult(p) ==
  IF req[p].method = "POST" THEN StatusCreated
  ELSE IF werr[p] THEN StatusInternalServerError ELSE StatusNoContent

\* C22: Shutdown aborts no request. From the call on, a goroutine that was
\* handling a request leaves its handler only by the handler's return, with
\* the response the handler makes without a shutdown, and one that returns
\* while Shutdown waits is counted as drained; Shutdown returns
\* context.DeadlineExceeded only while a request is still in flight and nil
\* only when all have returned.
C22_FastRequestCompletes ==
  [][ ShutdownBegun' =>
        /\ \A p \in Procs : pc[p] # "idle" /\ pc'[p] = "idle" =>
             /\ out'.req.method = req[p].method
             /\ out'.w.status = NormalResult(p)
             /\ srv = "draining" => [p |-> p, status |-> NormalResult(p)] \in drained'
        /\ shutdownErr = "none" /\ shutdownErr' = "DeadlineExceeded" =>
             InFlight # {} /\ {d.p : d \in drained} # inflight0
        /\ shutdownErr = "none" /\ shutdownErr' = "nil" =>
             {d.p : d \in drained} = inflight0
    ]_vars

\* Shutdown was called with two requests in flight and returned
\* context.DeadlineExceeded: the fast one had got its success response, the
\* slow one is still in its handler
C22_Witness ==
  /\ shutdownErr = "DeadlineExceeded"
  /\ inflight0 = Procs
  /\ \E d \in drained : d.status \in {StatusNoContent, StatusCreated}
  /\ InFlight # {}

\* the key and the value of a pair of an Upload-Metadata list: the key ends at
\* the first space, the value is what follows, <<>> when there is none
KeyOf(rawPair) ==
  LET pair == TrimSpace(rawPair)
      sp == IndexByte(pair, 32)
  IN IF sp # 0 THEN TrimSpace(SubSeq(pair, 1, sp - 1)) ELSE pair

ValueOf(rawPair) ==
  LET pair == TrimSpace(rawPair)
      sp == IndexByte(pair, 32)
  IN IF sp # 0 THEN TrimSpace(SubSeq(pair, sp + 1, Len(pair))) ELSE <<>>

\* the pairs of an Upload-Metadata value
PairsOf(metadata) == LET pairs == Split(metadata, 44) IN {pairs[i] : i \in 1..Len(pairs)}

\* the POST /files handler has run validateMetadata on the Upload-Metadata of
\* the request it answered last
Validated == out.req.method = "POST" /\ ~Atoi(OrZero(out.req.uploadLength)).err

\* C23: validateMetadata returns an error for every Upload-Metadata in which a
\* pair's key has a byte that is not ASCII, wherever the byte is in the key and
\* however long the key is: the handler answers 400 Bad Request (or 500 when
\* uuid.NewUUID or os.Create failed after validateMetadata let it pass, which
\* is left aside).
C23_NonASCIIKeyRejected ==
  Validated /\ out.w.status # StatusInternalServerError
            /\ (\E pair \in PairsOf(out.req.uploadMetadata) :
                  \E j \in 1..Len(KeyOf(pair)) : KeyOf(pair)[j] > MaxASCII)
  => /\ validateMetadata(out.req.uploadMetadata)
     /\ out.w.status = StatusBadRequest

\* C24: validateMetadata returns an error for every Upload-Metadata in which a
\* pair has a value that is not base64, whichever pair of the list it is: the
\* handler answers 400 Bad Request.
C24_InvalidBase64Rejected ==
  Validated /\ (\E pair \in PairsOf(out.req.uploadMetadata) :
                  ValueOf(pair) # <<>> /\ ~Base64Valid(ValueOf(pair)))
  => /\ validateMetadata(out.req.uploadMetadata)
     /\ out.w.status = StatusBadRequest

\* a list whose first pair passes and whose second pair has the value "dg="
\* was answered 400
C24_Witness ==
  /\ Validated
  /\ out.w.status = StatusBadRequest
  /\ LET pairs == Split(out.req.uploadMetadata, 44)
     IN /\ Len(pairs) = 2
        /\ ~PairInvalid(pairs[1])
        /\ ValueOf(pairs[2]) = <<100, 103, 61>>

\* C25: the File of every registered upload has a Size that is not negative,
\* whatever Upload-Length its POST /files carried.
C25_SizeNotNegative ==
  \A id \in UUIDs : storage[id] # Nil => storage[id].Size >= 0

\* C26: at most one File.write per upload is in its loop at a time; the file
\* holds what the calls wrote in the order they held File.mu, the blocks of
\* one call never among those of another; and the Upload-Offset of a 204
\* response is the offset at which the blocks of its own call end (the offset
\* when the call took File.mu plus the length of its body), so that the
\* offsets returned follow the order of the calls (stated for the calls that
\* started at the offset their request named).
C26_AppendsSerialized ==
  [][ /\ \A id \in UUIDs :
           /\ Cardinality(Writing(id)) <= 1
           /\ disk[id] # NoFile =>
                \/ Writing(id) = {} /\ disk[id] = taken[id]
                \/ \E p \in Writing(id) : disk[id] = taken[id] \o SubSeq(req[p].body, 1, flushed[p])
      /\ \A p \in Procs :
           /\ pc[p] = "ret" /\ ~werr[p] /\ pc'[p] = "idle"
           /\ Atoi(OrZero(req[p].uploadOffset)).val = base[p]
           => Get(out'.w, "Upload-Offset") = Itoa(base[p] + Len(req[p].body))
    ]_vars

\* C27: a HEAD answered 200 while a File.write is in its loop on the same
\* upload reports File.Offset as that call has committed it: the offset when
\* the call took File.mu plus the length of the whole blocks it has written,
\* which are a prefix of its body and the end of the file; and no HEAD ever
\* reports more than the file holds.
C27_HeadSeesCommittedOffset ==
  [][ Answers("HEAD") /\ out'.w.status = StatusOK =>
        LET id == out'.req.id
            reported == Get(out'.w, "Upload-Offset")
        IN /\ \A p \in Writing(id) :
                /\ reported = Itoa(base[p] + flushed[p])
                /\ flushed[p] <= Len(req[p].body)
                /\ disk[id] = taken[id] \o SubSeq(req[p].body, 1, flushed[p])
           /\ \E n \in 0..Len(disk[id]) : reported = Itoa(n)
    ]_vars

\* a HEAD was answered while a File.write had written one block and has more
\* of its body to read
C27_Witness ==
  /\ out.req.method = "HEAD"
  /\ out.w.status = StatusOK
  /\ \E p \in Writing(out.req.id) :
       /\ flushed[p] > 0 /\ body[p] # <<>>
       /\ Get(out.w, "Upload-Offset") = Itoa(base[p] + flushed[p])

\* a handler other than the one on goroutine p reads storage (the lookup of
\* HEAD, or of PATCH once the content type has passed) or writes it (the
\* insert of POST) in this step
OtherAccess(p) ==
  \/ Answers("HEAD")
  \/ Answers("PATCH") /\ pc' = pc /\ out'.w.status # StatusUnsupportedMediaType
  \/ \E q \in Procs \ {p} : Accepts(q)
  \/ \E q \in Procs \ {p} : pc[q] = "insert" /\ pc'[q] = "idle"

\* C28: the accesses to storage exclude one another: while the POST handler
\* on one goroutine is at its insert no other handler reads or writes the map.
C28_MapAccessSynchronized ==
  [][\A p \in Procs : pc[p] = "insert" /\ pc'[p] = "insert" => ~OtherAccess(p)]_vars

\* goroutine p takes a step of File.write
WriteStep(p) == pc[p] \in {"lock", "loop"} /\ (pc'[p] # pc[p] \/ body'[p] # body[p])

\* C29: appends to different uploads do not wait for one another and do not
\* touch one another's upload: a File.write waiting for File.mu can take it
\* unless a File.write on the same upload is in its loop, whatever goes on in
\* other uploads, and a step of a File.write changes the File and the file of
\* no other upload.
C29_DistinctSessionsIndependent ==
  [][ /\ \A q \in Procs :
           pc[q] = "lock" /\ out = NoExchange /\ srv # "crashed" /\ Writing(req[q].id) = {}
           => ENABLED WriteLock(q)
      /\ \A p \in Procs : WriteStep(p) =>
           \A id \in UUIDs \ {req[p].id} : storage'[id] = storage[id] /\ disk'[id] = disk[id]
    ]_vars

\* two File.write calls are in their loops at once, on different uploads, one
\* of them with body left to read
C29_Witness ==
  \E p, q \in Procs :
    /\ pc[p] = "loop" /\ pc[q] = "loop"
    /\ req[p].id # req[q].id
    /\ body[p] # <<>>
    /\ flushed[q] > 0

\* C30: File.mu is free once File.write has returned, whether it returned nil
\* or the error of os.OpenFile, of the Read or of writeToFile: the step in
\* which a call returns leaves the mutex unlocked, and the mutex is only ever
\* held while a call is in its loop, so a finished call blocks no later one.
C30_LockReleasedOnReturn ==
  [][ /\ \A id \in UUIDs : storage[id] # Nil /\ Locked(id) => Writing(id) # {}
      /\ \A p \in Procs : WriteStep(p) /\ pc'[p] = "ret" => ~storage'[req[p].id].mu
    ]_vars

\* a File.write has returned an error and another call on the same upload,
\* which was waiting, finds File.mu free
C30_Witness ==
  \E p, q \in Procs :
    /\ pc[p] = "ret" /\ werr[p]
    /\ pc[q] = "lock" /\ req[q].id = req[p].id
    /\ ~Locked(req[p].id)

\* C31: a PATCH that fails a precondition is answered for the first one it
\* fails, in the order content type, upload, Upload-Offset syntax,
\* Upload-Offset value: 415 for a wrong content type whatever the id, else 404
\* for an unknown id whatever the Upload-Offset, else 400 for an Upload-Offset
\* that is no number, else 409 for one that is not File.Offset; a PATCH that
\* fails none goes on to file.write; no rejection changes storage or a file.
C31_FirstFailedPrecondition ==
  [][ /\ Rejects =>
           LET r == out'.req
               expected == IF r.contentType # CONTENT_TYPE_OFFSET_OCTET_STREAM
                             THEN StatusUnsupportedMediaType
                           ELSE IF storage[r.id] = Nil THEN StatusNotFound
                           ELSE IF Atoi(OrZero(r.uploadOffset)).err THEN StatusBadRequest
                           ELSE StatusConflict
           IN /\ out'.w.status = expected
              /\ expected = StatusConflict => Atoi(OrZero(r.uploadOffset)).val # storage[r.id].Offset
              /\ storage' = storage /\ disk' = disk
      /\ \A p \in Procs : Accepts(p) =>
           /\ req'[p].contentType = CONTENT_TYPE_OFFSET_OCTET_STREAM
           /\ storage[req'[p].id] # Nil
           /\ ~Atoi(OrZero(req'[p].uploadOffset)).err
           /\ Atoi(OrZero(req'[p].uploadOffset)).val = storage[req'[p].id].Offset
    ]_vars

\* a PATCH with the resumable content type to an unknown id, with an
\* Upload-Offset that is no number, was answered 404
C31_Witness ==
  /\ out.req.method = "PATCH"
  /\ out.req.contentType = CONTENT_TYPE_OFFSET_OCTET_STREAM
  /\ storage[out.req.id] = Nil
  /\ Atoi(OrZero(out.req.uploadOffset)).err
  /\ out.w.status = StatusNotFound

\* C32: the ID, Size and Metadata of a registered upload never change and the
\* upload stays registered, whatever request is handled (a PATCH let through,
\* rejected or failed, a HEAD, a POST that registers another upload); every
\* HEAD answered 200 carries the Upload-Metadata value of the POST that
\* created the upload.
C32_CreationFieldsFixed ==
  [][ /\ \A id \in UUIDs : storage[id] # Nil =>
           /\ storage'[id] # Nil
           /\ storage'[id].ID = id
           /\ storage'[id].Size = storage[id].Size
           /\ storage'[id].Metadata = storage[id].Metadata
      /\ \A id \in UUIDs : Answers("POST") /\ storage[id] = Nil /\ storage'[id] # Nil =>
           /\ storage'[id].ID = id
           /\ storage'[id].Metadata = out'.req.uploadMetadata
           /\ storage'[id].Size = Atoi(OrZero(out'.req.uploadLength)).val
      /\ Answers("HEAD") /\ out'.w.status = StatusOK =>
           Get(out'.w, "Upload-Metadata") = storage[out'.req.id].Metadata
    ]_vars

\* a HEAD reports the metadata "k dg==" of an upload that has taken bytes,
\* while a second upload is registered
C32_Witness ==
  /\ out.req.method = "HEAD"
  /\ out.w.status = StatusOK
  /\ Get(out.w, "Upload-Metadata") = <<107, 32, 100, 103, 61, 61>>
  /\ storage[out.req.id].Offset > 0
  /\ \E id \in UUIDs \ {out.req.id} : storage[id] # Nil

\* C33: validateMetadata returns nil for every Upload-Metadata whose keys are
\* all ASCII, of whatever length, and whose values, where a pair has one, are
\* all base64: the handler does not answer 400 Bad Request.
C33_ValidMetadataAccepted ==
  Validated /\ (\A pair \in PairsOf(out.req.uploadMetadata) :
                  /\ \A j \in 1..Len(KeyOf(pair)) : KeyOf(pair)[j] <= MaxASCII
                  /\ ValueOf(pair) = <<>> \/ Base64Valid(ValueOf(pair)))
  => /\ ~validateMetadata(out.req.uploadMetadata)
     /\ out.w.status # StatusBadRequest

\* C34: a POST /files whose Upload-Length is not parsable as an integer
\* registers no upload and creates no file: no step of its handler changes
\* storage or the upload directory.
C34_UnparsableLengthCreatesNothing ==
  [][ /\ \A p \in Procs :
           pc[p] = "idle" /\ pc'[p] = "insert" /\ Atoi(OrZero(req'[p].uploadLength)).err
           => storage' = storage /\ disk' = disk
      /\ Answers("POST") /\ Atoi(OrZero(out'.req.uploadLength)).err
         => storage' = storage /\ disk' = disk
    ]_vars

NoOffset(r) ==
  /\ r.contentType = CONTENT_TYPE_OFFSET_OCTET_STREAM
  /\ storage[r.id] # Nil
  /\ r.uploadOffset = <<>>

\* C36: a PATCH without Upload-Offset is handled as one with Upload-Offset 0:
\* it is let through to file.write exactly when File.Offset is 0 and answered
\* 409 Conflict when File.Offset is above 0.
C36_AbsentOffsetIsZero ==
  [][ /\ \A p \in Procs : Accepts(p) /\ NoOffset(req'[p]) => storage[req'[p].id].Offset = 0
      /\ Rejects /\ NoOffset(out'.req) =>
           /\ storage[out'.req.id].Offset > 0
           /\ out'.w.status = StatusConflict
    ]_vars

\* a PATCH without Upload-Offset to an upload whose offset is above 0 was
\* answered 409
C36_Witness ==
  /\ out.req.method = "PATCH"
  /\ NoOffset(out.req)
  /\ out.w.status = StatusConflict
  /\ storage[out.req.id].Offset > 0

\* C37: a PATCH with an empty body that is let through leaves File.Offset and
\* the file as they are and, unless os.OpenFile or the Read fails (500), is
\* answered 204 with the Upload-Offset it named.
C37_EmptyAppend ==
  [][\A p \in Procs :
       /\ WriteStep(p) /\ req[p].body = <<>> =>
            /\ disk' = disk
            /\ storage'[req[p].id].Offset = storage[req[p].id].Offset
       /\ pc[p] = "ret" /\ pc'[p] = "idle" /\ req[p].body = <<>> =>
            /\ out'.w.status = IF werr[p] THEN StatusInternalServerError ELSE StatusNoContent
            /\ ~werr[p] =>
                 /\ Get(out'.w, "Upload-Offset") = Itoa(Atoi(OrZero(req[p].uploadOffset)).val)
                 /\ Get(out'.w, "Upload-Offset") = Itoa(storage[req[p].id].Offset)
     ]_vars

\* a PATCH with an empty body at an offset above 0 was answered 204
C37_Witness ==
  /\ out.req.method = "PATCH"
  /\ out.w.status = StatusNoContent
  /\ out.req.contentLength = 0
  /\ Atoi(OrZero(out.req.uploadOffset)).val > 0
  /\ Get(out.w, "Upload-Offset") = out.req.uploadOffset

====
